---- MODULE Spec2Model ----
(***************************************************************************)
(* A model of FloorplanGenerator (src/floorplan/floorplan_generator.py):   *)
(* the bubble-diagram compiler generate_bubble_diagram, the mask           *)
(* refinement loop generate_layout_masks, the retry-until-valid loop       *)
(* generate_floorplan and the edit loop of generate_house_mesh.            *)
(*                                                                         *)
(* A name is a sequence of tokens: a word followed by the characters of    *)
(* its suffix, <<"bedroom", "1">> for "bedroom1".  Node indices are        *)
(* 0-based as in the Python code; TLA+ sequences are 1-based, so node i    *)
(* is room_list[i + 1].                                                    *)
(***************************************************************************)
EXTENDS Integers, Sequences, FiniteSets, TLC

\* ------------------------------------------------------------------ bounds
MaxNodes == 4
MaxTextLen == 6
MaxAttempts == 2
MaxEdits == 2
MaxItems == 3
MaxTypeNodes == 12

\* ----------------------------------------------------------------- helpers
Range(s) == {s[i] : i \in 1..Len(s)}

MinOf(a, b) == IF a <= b THEN a ELSE b

MaxOfSet(S) == CHOOSE x \in S : \A y \in S : y <= x

SeqsUpTo(S, n) == UNION {[1..k -> S] : k \in 0..n}

RECURSIVE Concat(_)
Concat(ss) == IF ss = <<>> THEN <<>> ELSE Head(ss) \o Concat(Tail(ss))

\* str(i) for a non-negative integer: the characters of its decimal form
Digit(d) == CASE d = 0 -> "0" [] d = 1 -> "1" [] d = 2 -> "2" [] d = 3 -> "3"
              [] d = 4 -> "4" [] d = 5 -> "5" [] d = 6 -> "6" [] d = 7 -> "7"
              [] d = 8 -> "8" [] d = 9 -> "9"

RECURSIVE Str(_)
Str(i) == IF i < 10 THEN <<Digit(i)>> ELSE Str(i \div 10) \o <<Digit(i % 10)>>

\* ------------------------------------------------------------- exceptions
NoExc == [kind |-> "none", arg |-> <<>>]

KeyError(k) == [kind |-> "KeyError", arg |-> k]

ValueError == [kind |-> "ValueError", arg |-> <<>>]

IndexError == [kind |-> "IndexError", arg |-> <<>>]

AttributeError == [kind |-> "AttributeError", arg |-> <<>>]

JSONDecodeError == [kind |-> "JSONDecodeError", arg |-> <<>>]

\* ------------------------------------------------- generate_bubble_diagram
\* type_list: the registry of type names and their codes
type_list == [living_room |-> 1, kitchen |-> 2, bedroom |-> 3, bathroom |-> 4,
              balcony |-> 5, entrance |-> 6, dining_room |-> 7, study_room |-> 8,
              storage |-> 10, front_door |-> 15, unknown |-> 16,
              interior_door |-> 17]

\* room[:-1]: the name without its last character.  Cutting the last
\* character of a bare word leaves a clipped word, which is no registry key.
DropLastChar(room) ==
    IF Len(room) > 1 THEN SubSeq(room, 1, Len(room) - 1) ELSE <<"(clipped)">>

\* type_list[room[:-1]] if room[:-1] in type_list else type_list["unknown"]
TypeIndex(room) ==
    LET key == DropLastChar(room)
    IN IF Len(key) = 1 /\ key[1] \in DOMAIN type_list
       THEN type_list[key[1]] ELSE type_list["unknown"]

\* dict(zip(keys, vals)): zip stops at the shorter list, a repeated key keeps
\* its last value
DictOfZip(keys, vals) ==
    LET n == MinOf(Len(keys), Len(vals))
    IN [k \in {keys[i] : i \in 1..n} |->
           vals[MaxOfSet({i \in 1..n : keys[i] = k})]]

\* {room: i for i, room in enumerate(room_list)}: a repeated name keeps its
\* last index (0-based)
room_dict(room_list) ==
    [r \in Range(room_list) |->
        MaxOfSet({i \in 1..Len(room_list) : room_list[i] = r}) - 1]

\* the names a connection list and a front-door list look up in
\* room_name_dict, in the order of evaluation
LookupOrder(connection, front_door) ==
    Concat([i \in 1..Len(connection) |-> <<connection[i][1], connection[i][2]>>])
      \o front_door

\* the first name of a list that is no key of dict; <<>> when there is none
FirstMissing(names, dict) ==
    LET bad == {i \in 1..Len(names) : names[i] \notin DOMAIN dict}
    IN IF bad = {} THEN <<>>
       ELSE names[CHOOSE i \in bad : \A j \in bad : i <= j]

\* list.remove(x): drops the first occurrence; ValueError when there is none
ListRemove(l, x) ==
    IF x \notin Range(l) THEN [exc |-> ValueError, list |-> l]
    ELSE LET p == CHOOSE i \in 1..Len(l) : l[i] = x /\ \A j \in 1..(i - 1) : l[j] # x
         IN [exc |-> NoExc,
             list |-> SubSeq(l, 1, p - 1) \o SubSeq(l, p + 1, Len(l))]

\* the pairs (i, j), j > i, of range(n) x range(n) in loop order: i ascending,
\* then j ascending
PairsInOrder(n) ==
    LET P == {p \in (0..(n - 1)) \X (0..(n - 1)) : p[1] < p[2]}
        place(p) == Cardinality({q \in P : q[1] < p[1] \/ (q[1] = p[1] /\ q[2] <= p[2])})
    IN [k \in 1..Cardinality(P) |-> CHOOSE p \in P : place(p) = k]

\* the initial triples: (i, -1, j) for every j > i
InitialTriples(n) ==
    LET ps == PairsInOrder(n)
    IN [k \in 1..Len(ps) |-> <<ps[k][1], -1, ps[k][2]>>]

\* the body of the adjacency loop for one pair (i, j) of real nodes
AdjacencyStep(st, connection, i, j) ==
    IF st.exc # NoExc THEN st
    ELSE
    LET is_adjacent == \E k \in 1..Len(connection) :
                          i \in Range(connection[k]) /\ j \in Range(connection[k])
        hits == SelectSeq(connection,
                   LAMBDA pair : (pair[1] = i /\ pair[3] = j)
                                 \/ (pair[1] = j /\ pair[3] = i))
    IN IF ~is_adjacent THEN st
       ELSE IF hits = <<>> THEN [exc |-> IndexError, list |-> st.list]
       ELSE LET d == hits[1][2]
                r1 == ListRemove(st.list, <<i, -1, d>>)
                r2 == ListRemove(r1.list, <<j, -1, d>>)
                r3 == ListRemove(r2.list, <<i, -1, j>>)
            IN IF r1.exc # NoExc THEN r1
               ELSE IF r2.exc # NoExc THEN r2
               ELSE IF r3.exc # NoExc THEN r3
               ELSE [exc |-> NoExc,
                     list |-> r3.list \o <<<<i, 1, d>>, <<j, 1, d>>, <<i, 1, j>>>>]

\* lines 299-311: for j in range(real_nodes_len), from j on, for one i
RECURSIVE AdjacencyInner(_, _, _, _, _)
AdjacencyInner(st, connection, n, i, j) ==
    IF j >= n \/ st.exc # NoExc THEN st
    ELSE AdjacencyInner(IF j > i THEN AdjacencyStep(st, connection, i, j) ELSE st,
                        connection, n, i, j + 1)

\* lines 298-311: for i in range(real_nodes_len), from i on
RECURSIVE AdjacencyLoop(_, _, _, _)
AdjacencyLoop(st, connection, n, i) ==
    IF i >= n \/ st.exc # NoExc THEN st
    ELSE AdjacencyLoop(AdjacencyInner(st, connection, n, i, 0), connection, n, i + 1)

\* the front-door loop: for i, room in enumerate(front_door, 1)
RECURSIVE FrontDoorLoop(_, _, _, _)
FrontDoorLoop(st, front_door, rd, i) ==
    IF st.exc # NoExc \/ i > Len(front_door) THEN st
    ELSE LET r == rd[front_door[i]]
             f == rd[<<"front_door">> \o Str(i)]
             rm == ListRemove(st.list, <<r, -1, f>>)
         IN IF rm.exc # NoExc THEN rm
            ELSE FrontDoorLoop([exc |-> NoExc, list |-> Append(rm.list, <<r, 1, f>>)],
                               front_door, rd, i + 1)

\* sorted(triples, key=lambda x: (x[0], x[2])): a stable sort, so the place
\* of l[i] is after every element of a smaller key and every earlier element
\* of the same key
KeyLess(x, y) == x[1] < y[1] \/ (x[1] = y[1] /\ x[3] < y[3])

\* a sort that is left out: the triples stay in the order of the appends
SortedByKey_Omitted(l) == l

SortedByKey(l) ==
    LET before(i) == {j \in 1..Len(l) :
                        \/ KeyLess(l[j], l[i])
                        \/ (~KeyLess(l[i], l[j]) /\ j < i)}
        place == [i \in 1..Len(l) |-> Cardinality(before(i)) + 1]
    IN [r \in 1..Len(l) |-> l[CHOOSE i \in 1..Len(l) : place[i] = r]]

\* utils.one_hot_embedding(room_list_indices)[:, 1:], each row given by the
\* column that holds its 1: column 0 is dropped, so code c sits in column c-1
one_hot_embedding(room_list_indices) ==
    [i \in 1..Len(room_list_indices) |-> room_list_indices[i] - 1]

\* what a call of generate_bubble_diagram hands back: the exception it raised,
\* or the tuple it returned
Raised(e) ==
    [returned |-> FALSE, exc |-> e, graph_nodes |-> <<>>, graph_edges |-> <<>>,
     room_name_dict |-> <<>>, room_list |-> <<>>, response_str |-> <<>>]

\* lines 274-324, once every name has been translated
BuildGraph(response, room_name_dict) ==
    LET modified == response.modified_room_list
        real_nodes_len == Len(modified)
        raw_connection == [k \in 1..Len(response.connection) |->
                             <<room_name_dict[response.connection[k][1]],
                               room_name_dict[response.connection[k][2]]>>]
        front_door == [k \in 1..Len(response.front_door) |->
                          room_name_dict[response.front_door[k]]]
        interior_door_list == [k \in 1..Len(raw_connection) |->
                                  <<"interior_door">> \o Str(k)]
        front_door_list == [k \in 1..Len(front_door) |-> <<"front_door">> \o Str(k)]
        room_list == modified \o interior_door_list \o front_door_list
        named == [k \in 1..Len(raw_connection) |->
                     <<raw_connection[k][1], <<"interior_door">> \o Str(k),
                       raw_connection[k][2]>>]
        room_list_indices == [k \in 1..Len(room_list) |-> TypeIndex(room_list[k])]
        rd == room_dict(room_list)
        connection == [k \in 1..Len(named) |->
                          <<rd[named[k][1]], rd[named[k][2]], rd[named[k][3]]>>]
        t0 == [exc |-> NoExc, list |-> InitialTriples(Len(room_list))]
        t1 == AdjacencyLoop(t0, connection, real_nodes_len, 0)
        t2 == FrontDoorLoop(t1, front_door, rd, 1)
    IN IF t2.exc # NoExc THEN Raised(t2.exc)
       ELSE [returned |-> TRUE, exc |-> NoExc,
             graph_nodes |-> one_hot_embedding(room_list_indices),
             graph_edges |-> SortedByKey(t2.list),
             room_name_dict |-> room_name_dict,
             room_list |-> room_list,
             \* room_list is response["modified_room_list"] itself, extended in
             \* place, so str(response) shows the extended list
             response_str |-> [response EXCEPT !.modified_room_list = room_list]]

\* lines 261-324: from the parsed response to the returned tuple
Compile(response) ==
    IF "complete_room_list" \notin DOMAIN response
    THEN Raised(KeyError(<<"complete_room_list">>))
    ELSE IF "modified_room_list" \notin DOMAIN response
    THEN Raised(KeyError(<<"modified_room_list">>))
    ELSE IF "connection" \notin DOMAIN response
    THEN Raised(KeyError(<<"connection">>))
    ELSE
    LET room_name_dict == DictOfZip(response.complete_room_list,
                                    response.modified_room_list)
        miss_c == FirstMissing(LookupOrder(response.connection, <<>>), room_name_dict)
    IN IF miss_c # <<>> THEN Raised(KeyError(miss_c))
       ELSE IF "front_door" \notin DOMAIN response
       THEN Raised(KeyError(<<"front_door">>))
       ELSE LET miss_f == FirstMissing(response.front_door, room_name_dict)
            IN IF miss_f # <<>> THEN Raised(KeyError(miss_f))
               ELSE BuildGraph(response, room_name_dict)

\* ------------------------------------------------------- bounded inputs
\* the k-th name of complete_room_list: "room1", "room2", ...
CompleteName(k) == <<"room">> \o Str(k)

\* a name that is in no complete_room_list
Ghost == <<"ghost">>

\* the standardized names the language model answers with
StdNames == {<<"bedroom", "1">>, <<"bedroom", "2">>, <<"unknown">>}

\* the complete_room_list variants offered with a modified_room_list of r
\* names: the r distinct names, one name fewer, one name more, and the r names
\* with the last one repeating the first
CompleteLists(r) ==
    LET distinct(n) == [k \in 1..n |-> CompleteName(k)]
    IN {distinct(r), distinct(r + 1)}
         \cup (IF r >= 1 THEN {distinct(r - 1)} ELSE {})
         \cup (IF r >= 2 THEN {[distinct(r) EXCEPT ![r] = CompleteName(1)]} ELSE {})

\* the names a connection or a front-door entry may carry when the
\* modified_room_list has r names
RefNames(r) == {CompleteName(k) : k \in 1..r} \cup {Ghost}

\* the sizes (rooms, connections, front doors) of at most n nodes
Sizes(n) == {t \in (0..n) \X (0..n) \X (0..n) : t[1] + t[2] + t[3] <= n}

\* resp is a response with r standardized names, c connections and f front
\* doors
IsResponseOf(resp, r, c, f) ==
    \E cl \in CompleteLists(r), ml \in [1..r -> StdNames],
       cn \in [1..c -> RefNames(r) \X RefNames(r)], fd \in [1..f -> RefNames(r)] :
         resp = [complete_room_list |-> cl, modified_room_list |-> ml,
                 connection |-> cn, front_door |-> fd]

\* the four keys of a response
ResponseKeys == {"complete_room_list", "modified_room_list", "connection", "front_door"}

\* a response with one of its four keys missing
DropKey(resp, key) == [k \in DOMAIN resp \ {key} |-> resp[k]]

\* --------------------------------- the language model's text and its parsing
\* A response text is a sequence of characters: the braces, "w" for a
\* character of prose, " " for a space or a newline, and one character for the
\* whole content of an object: "A", "B", "T" and "E" are the contents of
\* PayloadA, PayloadB, PayloadT and PayloadE, and "b" is content "B" with its
\* spaces deleted.

\* the scenario of two rooms, one connection and one front door
PayloadA ==
    [complete_room_list |-> <<<<"kitchen", "1">>, <<"bedroom", "1">>>>,
     modified_room_list |-> <<<<"kitchen", "1">>, <<"bedroom", "1">>>>,
     connection |-> <<<<<<"kitchen", "1">>, <<"bedroom", "1">>>>>>,
     front_door |-> <<<<"kitchen", "1">>>>]

\* a room whose complete name has a space in it, as "dining room1"
PayloadB ==
    [complete_room_list |-> <<<<"dining", " ", "room", "1">>>>,
     modified_room_list |-> <<<<"dining_room", "1">>>>,
     connection |-> <<>>,
     front_door |-> <<<<"dining", " ", "room", "1">>>>]

\* one room of each of the ten enumerated types, a connection, a front door
PayloadT ==
    LET types == <<"living_room", "kitchen", "bedroom", "bathroom", "balcony",
                   "entrance", "dining_room", "study_room", "storage", "unknown">>
        names == [k \in 1..Len(types) |-> <<types[k], "1">>]
    IN [complete_room_list |-> names, modified_room_list |-> names,
        connection |-> <<<<names[1], names[2]>>>>,
        front_door |-> <<names[6]>>]

\* no rooms at all
PayloadE ==
    [complete_room_list |-> <<>>, modified_room_list |-> <<>>,
     connection |-> <<>>, front_door |-> <<>>]

\* str.replace(" ", "") on a name
StripName(name) == SelectSeq(name, LAMBDA ch : ch # " ")

\* a response whose every name went through .replace("\n", "").replace(" ", "")
StripPayload(resp) ==
    [complete_room_list |-> [k \in 1..Len(resp.complete_room_list) |->
                                StripName(resp.complete_room_list[k])],
     modified_room_list |-> [k \in 1..Len(resp.modified_room_list) |->
                                StripName(resp.modified_room_list[k])],
     connection |-> [k \in 1..Len(resp.connection) |->
                        <<StripName(resp.connection[k][1]),
                          StripName(resp.connection[k][2])>>],
     front_door |-> [k \in 1..Len(resp.front_door) |->
                        StripName(resp.front_door[k])]]

\* response_str.replace("\n", "").replace(" ", ""): every space and newline
\* goes, those inside the names of an object too
StripSpaces(response_str) ==
    LET kept == SelectSeq(response_str, LAMBDA ch : ch # " ")
    IN [k \in 1..Len(kept) |-> IF kept[k] = "B" THEN "b" ELSE kept[k]]

\* the position of the "}" that closes the group open at depth `depth` when
\* the scan is at position p; 0 when the text ends first
RECURSIVE CloseOf(_, _, _)
CloseOf(raw, p, depth) ==
    IF p > Len(raw) THEN 0
    ELSE IF raw[p] = "{" THEN CloseOf(raw, p + 1, depth + 1)
    ELSE IF raw[p] = "}"
         THEN IF depth = 1 THEN p ELSE CloseOf(raw, p + 1, depth - 1)
    ELSE CloseOf(raw, p + 1, depth)

\* the end of the match of \{(?:[^{}]|(?R))*\} that starts at p; 0 for none
MatchEnd(raw, p) == IF raw[p] = "{" THEN CloseOf(raw, p + 1, 1) ELSE 0

\* a search that returns the rightmost match instead of the leftmost one
RegexSearch_Last(raw) ==
    LET starts == {p \in 1..Len(raw) : MatchEnd(raw, p) # 0}
    IN IF starts = {} THEN <<>>
       ELSE LET p == CHOOSE x \in starts : \A y \in starts : x >= y
            IN <<p, MatchEnd(raw, p)>>

\* regex.search(pattern, raw_response): the leftmost match, as the pair of its
\* first and last position; <<>> for None
RegexSearch(raw) ==
    LET starts == {p \in 1..Len(raw) : MatchEnd(raw, p) # 0}
    IN IF starts = {} THEN <<>>
       ELSE LET p == CHOOSE x \in starts : \A y \in starts : x <= y
            IN <<p, MatchEnd(raw, p)>>

\* what json.loads makes of an object's text: a response, the dict without
\* keys for "{}", and JSONDecodeError for anything that is not JSON
NotJson == [not_json |-> TRUE]

JsonLoads(obj) ==
    LET t == SelectSeq(obj, LAMBDA ch : ch # " ")
        dict(v) == [valid |-> TRUE, value |-> v]
    IN CASE t = <<"{", "A", "}">> -> dict(PayloadA)
         [] t = <<"{", "B", "}">> -> dict(PayloadB)
         [] t = <<"{", "b", "}">> -> dict(StripPayload(PayloadB))
         [] t = <<"{", "T", "}">> -> dict(PayloadT)
         [] t = <<"{", "E", "}">> -> dict(PayloadE)
         [] t = <<"{", "}">> -> dict([k \in {} |-> <<>>])
         [] OTHER -> [valid |-> FALSE, value |-> NotJson]

\* lines 245-256: the response the parser hands to the compiler, or the
\* exception it raises
ParseResponse(response_str) ==
    LET raw_response == StripSpaces(response_str)
        m == RegexSearch(raw_response)
    IN IF m = <<>> THEN [exc |-> AttributeError, response |-> NotJson]
       ELSE LET loaded == JsonLoads(SubSeq(raw_response, m[1], m[2]))
            IN IF ~loaded.valid
               THEN [exc |-> JSONDecodeError, response |-> NotJson]
               ELSE [exc |-> NoExc, response |-> loaded.value]

\* lines 245-324: generate_bubble_diagram from the text the model returned
ParseAndCompile(response_str) ==
    LET parsed == ParseResponse(response_str)
    IN IF parsed.exc # NoExc THEN Raised(parsed.exc) ELSE Compile(parsed.response)

\* the characters of the texts the parser is run on
TextAlphabet == {"{", "}", "w", " ", "A", "B"}

\* ------------------------------------------------------ generate_layout_masks
\* the refinement rounds after the initial pass: range(10)
NumRounds == 10

\* None, and the masks a call of _infer returns: those of pass `pass` (0 the
\* initial pass, k + 1 refinement round k) of attempt `attempt` of the
\* `gen`-th generate_floorplan
NoMasks == [gen |-> 0, attempt |-> 0, pass |-> 0]

\* sorted(list(set(real_nodes)))
RECURSIVE SortedList(_)
SortedList(S) ==
    IF S = {} THEN <<>>
    ELSE LET lo == CHOOSE x \in S : \A y \in S : x <= y
         IN <<lo>> \o SortedList(S \ {lo})

\* np.where(real_nodes == t)[0]: the indices of the nodes of type t, ascending
WhereType(real_nodes, t) ==
    LET hit == SelectSeq([i \in 1..Len(real_nodes) |-> i],
                         LAMBDA i : real_nodes[i] = t)
    IN [k \in 1..Len(hit) |-> hit[k] - 1]

\* selected_types[k]: _types[:k+1]
SelectedTypes(real_nodes, k) ==
    LET types == SortedList(Range(real_nodes))
    IN SubSeq(types, 1, MinOf(k + 1, Len(types)))

\* a round that fixes the nodes of the type it adds and no others
FixedNodes_OnlyNewType(real_nodes, k) ==
    LET types == SelectedTypes(real_nodes, k)
    IN IF Len(types) = k + 1 THEN WhereType(real_nodes, types[k + 1]) ELSE <<>>

\* _fixed_nodes of refinement round k
FixedNodes(real_nodes, k) ==
    LET types == SelectedTypes(real_nodes, k)
    IN Concat([t \in 1..Len(types) |-> WhereType(real_nodes, types[t])])

\* ------------------------------------------------------------------ state
VARIABLES
    pc,                \* where generate_house_mesh (or the function under test) is
    text,              \* the text the language model returned last
    prompt,            \* what the last request to the language model carried
    response,          \* the parsed response handed to the compiler
    bubble,            \* what the last call of generate_bubble_diagram handed back
    edit,              \* the edit argument of generate_house_mesh
    edit_description,  \* the last instruction read by input()
    edits,             \* the instructions that started an edit round so far
    llm_calls,         \* the requests made to the language model so far
    attempt,           \* the calls of generate_layout_masks in this generate_floorplan
    iter,              \* the refinement rounds done in this generate_layout_masks
    state,             \* the state dict handed to the last _infer
    masks,             \* the masks the last _infer returned
    infer_log,         \* the state dicts handed to _infer in this generate_layout_masks
    status,            \* the is_valid flag of the last check_post_processing
    border_map,        \* border_map_no_doors, by the masks it was made from
    floorplans,        \* the calls of generate_floorplan that returned so far
    mesh,              \* the returned mesh, by the border map it was built from
    exc,               \* the exception that left generate_house_mesh
    floorplan_description, \* the batch driver's document, as held in memory
    document,          \* floorplan_description.json, as last written
    floorplan          \* the position of the batch driver's loop in the list

bubbleVars == <<text, prompt, response, bubble, llm_calls>>

layoutVars == <<attempt, iter, state, masks, infer_log, status>>

houseVars == <<edit, edit_description, edits, border_map, floorplans, mesh, exc>>

batchVars == <<floorplan_description, document, floorplan>>

vars == <<pc, bubbleVars, layoutVars, houseVars, batchVars>>

NoPrompt == [is_edit |-> FALSE, edit_fp |-> <<>>, edit_description |-> ""]

NoBorderMap == [masks |-> NoMasks]

NoMesh == [border_map |-> NoBorderMap, built |-> FALSE]

\* nothing has run yet
Idle ==
    /\ prompt = NoPrompt /\ llm_calls = 0
    /\ bubble = Raised(NoExc)
    /\ edit_description = "" /\ edits = 0
    /\ attempt = 0 /\ iter = 0 /\ masks = NoMasks /\ infer_log = <<>>
    /\ state = [masks |-> NoMasks, fixed_nodes |-> <<>>]
    /\ status = FALSE
    /\ border_map = NoBorderMap /\ floorplans = 0 /\ mesh = NoMesh
    /\ exc = NoExc

\* no batch is run
NoBatch == floorplan_description = <<>> /\ document = <<>> /\ floorplan = 0

\* ---------------------------------------------- the compiler on its inputs
InitCompile ==
    /\ pc = "compile"
    /\ \/ \E t \in Sizes(MaxNodes) : IsResponseOf(response, t[1], t[2], t[3])
       \/ \E t \in Sizes(1), key \in ResponseKeys :
               \E cl \in CompleteLists(t[1]), ml \in [1..t[1] -> StdNames],
                  cn \in [1..t[2] -> RefNames(t[1]) \X RefNames(t[1])],
                  fd \in [1..t[3] -> RefNames(t[1])] :
                 response = DropKey([complete_room_list |-> cl,
                                     modified_room_list |-> ml,
                                     connection |-> cn, front_door |-> fd], key)
    /\ text = <<>>
    /\ edit = FALSE
    /\ Idle
    /\ NoBatch

\* generate_bubble_diagram from line 261 on, applied to a parsed response
CompileResponse ==
    /\ pc = "compile"
    /\ bubble' = Compile(response)
    /\ pc' = "compiled"
    /\ UNCHANGED <<text, prompt, response, llm_calls, layoutVars, houseVars>>
    /\ UNCHANGED batchVars

SpecCompile == InitCompile /\ [][CompileResponse]_vars

\* ------------------------------------- the compiler on many doors and names
\* standardized names as the language model may write them: a type with a
\* one-digit index, a bare type, a type with a two-digit index, a type that is
\* not in the registry
TypeNames ==
    {<<"bedroom", "1">>, <<"bedroom">>, <<"bedroom", "1", "0">>,
     <<"storage", "2">>, <<"attic", "1">>}

\* a well-formed response of r rooms with the standardized names ml, c
\* connections from the first room to the last one, and f front doors in the
\* first room; the inputs have many doors of one kind and at most one of the
\* other
DoorsResponse(ml, c, f) ==
    LET r == Len(ml)
    IN [complete_room_list |-> [k \in 1..r |-> CompleteName(k)],
        modified_room_list |-> ml,
        connection |-> [k \in 1..c |-> <<CompleteName(1), CompleteName(r)>>],
        front_door |-> [k \in 1..f |-> CompleteName(1)]]

InitTypes ==
    /\ pc = "compile"
    /\ \E r \in 1..2 : \E ml \in [1..r -> TypeNames] :
          \E c \in 0..(MaxTypeNodes - r) : \E f \in 0..(MaxTypeNodes - r - c) :
             /\ c <= 1 \/ f <= 1
             /\ response = DoorsResponse(ml, c, f)
    /\ text = <<>>
    /\ edit = FALSE
    /\ Idle
    /\ NoBatch

SpecTypes == InitTypes /\ [][CompileResponse]_vars

\* ------------------------------------------------ the parser on its inputs
InitParse ==
    /\ pc = "parse"
    /\ response = NotJson
    /\ edit = FALSE
    /\ Idle
    /\ NoBatch
    /\ text \in SeqsUpTo(TextAlphabet, MaxTextLen)

\* generate_bubble_diagram from line 245 on, applied to a returned text
ParseText ==
    /\ pc = "parse"
    /\ response' = ParseResponse(text).response
    /\ bubble' = ParseAndCompile(text)
    /\ pc' = "parsed"
    /\ UNCHANGED <<text, prompt, llm_calls, layoutVars, houseVars>>
    /\ UNCHANGED batchVars

SpecParse == InitParse /\ [][ParseText]_vars

\* ------------------------------------------------------ generate_house_mesh
\* the texts the language model answers with in a run of generate_house_mesh
LlmTexts ==
    {<<"w", "{", "A", "}", "w">>, <<"{", "B", "}">>, <<"{", "T", "}">>,
     <<"{", "E", "}">>, <<"w", "w">>, <<"{", "A", "}", "{", "T", "}">>}

\* what the user types at the prompt of the edit loop
Instructions == {"", "q", "add a balcony"}

GenerationFailure == [kind |-> "GenerationFailure", arg |-> <<>>]

ApiFailure == [kind |-> "ApiFailure", arg |-> <<>>]

Init ==
    /\ pc = "bubble"
    /\ text = <<>>
    /\ response = NotJson
    /\ edit \in BOOLEAN
    /\ Idle
    /\ NoBatch

\* lines 66 and 74, 235-324: one call of generate_bubble_diagram that gets an
\* answer from the language model
BubbleDiagram ==
    /\ pc = "bubble"
    /\ \E t \in LlmTexts :
          /\ text' = t
          /\ response' = ParseResponse(t).response
          /\ bubble' = ParseAndCompile(t)
    /\ llm_calls' = llm_calls + 1
    /\ exc' = bubble'.exc
    /\ pc' = IF bubble'.returned THEN "floorplan" ELSE "raised"
    /\ UNCHANGED <<prompt, layoutVars, edit, edit_description, edits, border_map,
                   floorplans, mesh>>
    /\ UNCHANGED batchVars

\* lines 235-243: the request to the language model raises
LlmFails ==
    /\ pc = "bubble"
    /\ llm_calls' = llm_calls + 1
    /\ exc' = ApiFailure
    /\ pc' = "raised"
    /\ UNCHANGED <<text, prompt, response, bubble, layoutVars, edit,
                   edit_description, edits, border_map, floorplans, mesh>>
    /\ UNCHANGED batchVars

\* lines 83-86: generate_floorplan starts with status = False
EnterFloorplan ==
    /\ pc = "floorplan"
    /\ status' = FALSE
    /\ attempt' = 0
    /\ pc' = "layout"
    /\ UNCHANGED <<bubbleVars, iter, state, masks, infer_log, houseVars>>
    /\ UNCHANGED batchVars

\* lines 89, 326-350: generate_layout_masks is called and loads the generator
LoadGenerator ==
    /\ pc = "layout"
    /\ attempt' = attempt + 1
    /\ iter' = 0
    /\ infer_log' = <<>>
    /\ pc' = "init"
    /\ UNCHANGED <<bubbleVars, state, masks, status, houseVars>>
    /\ UNCHANGED batchVars

\* lines 332-333: Generator() or load_state_dict raises
LoadFails ==
    /\ pc = "layout"
    /\ attempt' = attempt + 1
    /\ infer_log' = <<>>
    /\ exc' = GenerationFailure
    /\ pc' = "raised"
    /\ UNCHANGED <<bubbleVars, iter, state, masks, status, edit, edit_description,
                   edits, border_map, floorplans, mesh>>
    /\ UNCHANGED batchVars

\* the state dict of the pass that comes next: lines 353 and 361-363
NextState ==
    IF pc = "init" THEN [masks |-> NoMasks, fixed_nodes |-> <<>>]
    ELSE [masks |-> masks, fixed_nodes |-> FixedNodes(bubble.graph_nodes, iter)]

\* lines 352-354: the initial pass
InitialPass ==
    /\ pc = "init"
    /\ state' = NextState
    /\ infer_log' = Append(infer_log, state')
    /\ masks' = [gen |-> llm_calls, attempt |-> attempt, pass |-> 0]
    /\ pc' = "refine"
    /\ UNCHANGED <<bubbleVars, attempt, iter, status, houseVars>>
    /\ UNCHANGED batchVars

\* lines 360-371: one refinement round; after the last one the masks are
\* returned to generate_floorplan
RefineRound ==
    /\ pc = "refine"
    /\ iter < NumRounds
    /\ state' = NextState
    /\ infer_log' = Append(infer_log, state')
    /\ masks' = [gen |-> llm_calls, attempt |-> attempt, pass |-> iter + 1]
    /\ iter' = iter + 1
    /\ pc' = IF iter' = NumRounds THEN "validate" ELSE "refine"
    /\ UNCHANGED <<bubbleVars, attempt, status, houseVars>>
    /\ UNCHANGED batchVars

\* a failed inference that is swallowed, the loop starting another attempt
InferFails_Retried ==
    /\ pc \in {"init", "refine"}
    /\ state' = NextState
    /\ infer_log' = Append(infer_log, state')
    /\ pc' = "layout"
    /\ UNCHANGED <<bubbleVars, attempt, iter, masks, status, houseVars>>
    /\ UNCHANGED batchVars

\* lines 354, 364, 374-382: _infer raises in the initial pass or in a round
InferFails ==
    /\ pc \in {"init", "refine"}
    /\ state' = NextState
    /\ infer_log' = Append(infer_log, state')
    /\ exc' = GenerationFailure
    /\ pc' = "raised"
    /\ UNCHANGED <<bubbleVars, attempt, iter, masks, status, edit, edit_description,
                   edits, border_map, floorplans, mesh>>
    /\ UNCHANGED batchVars

\* a loop that is left although the layout was found invalid
ValidateInvalid_Accepted ==
    /\ pc = "validate"
    /\ attempt < MaxAttempts
    /\ status' = FALSE
    /\ pc' = "post"
    /\ UNCHANGED <<bubbleVars, attempt, iter, state, masks, infer_log, houseVars>>
    /\ UNCHANGED batchVars

\* line 92 and 86: check_post_processing finds the layout invalid and the
\* loop goes round
ValidateInvalid ==
    /\ pc = "validate"
    /\ attempt < MaxAttempts
    /\ status' = FALSE
    /\ pc' = "layout"
    /\ UNCHANGED <<bubbleVars, attempt, iter, state, masks, infer_log, houseVars>>
    /\ UNCHANGED batchVars

\* line 92 and 86: check_post_processing finds the layout valid
ValidateValid ==
    /\ pc = "validate"
    /\ status' = TRUE
    /\ pc' = "post"
    /\ UNCHANGED <<bubbleVars, attempt, iter, state, masks, infer_log, houseVars>>
    /\ UNCHANGED batchVars

\* lines 94-102 and 68, 70, 75: the border map is made from the validated
\* masks and generate_floorplan returns
PostProcess ==
    /\ pc = "post"
    /\ border_map' = [masks |-> masks]
    /\ floorplans' = floorplans + 1
    /\ pc' = IF edit THEN "input" ELSE "mesh"
    /\ UNCHANGED <<bubbleVars, layoutVars, edit, edit_description, edits, mesh, exc>>
    /\ UNCHANGED batchVars

\* an edit loop that stops on "q" and takes "" for an instruction
EditStop_OnlyQ ==
    /\ pc = "input"
    /\ \/ /\ edit_description' = "q"
          /\ pc' = "mesh"
          /\ UNCHANGED <<prompt, edits>>
       \/ /\ edits < MaxEdits
          /\ edit_description' = ""
          /\ prompt' = [is_edit |-> TRUE, edit_fp |-> bubble.response_str,
                        edit_description |-> ""]
          /\ edits' = edits + 1
          /\ pc' = "bubble"
    /\ UNCHANGED <<text, response, bubble, llm_calls, layoutVars, edit, border_map,
                   floorplans, mesh, exc>>
    /\ UNCHANGED batchVars

\* lines 71-73: the instruction read ends the edit loop
EditStop ==
    /\ pc = "input"
    /\ \E d \in {"", "q"} : edit_description' = d
    /\ pc' = "mesh"
    /\ UNCHANGED <<bubbleVars, layoutVars, edit, edits, border_map, floorplans,
                   mesh, exc>>
    /\ UNCHANGED batchVars

\* lines 71-74: any other instruction starts an edit round
EditRound ==
    /\ pc = "input"
    /\ edits < MaxEdits
    /\ \E d \in Instructions \ {"", "q"} :
          /\ edit_description' = d
          /\ prompt' = [is_edit |-> TRUE, edit_fp |-> bubble.response_str,
                        edit_description |-> d]
    /\ edits' = edits + 1
    /\ pc' = "bubble"
    /\ UNCHANGED <<text, response, bubble, llm_calls, layoutVars, edit, border_map,
                   floorplans, mesh, exc>>
    /\ UNCHANGED batchVars

\* lines 76-81: the mesh is built from border_map_no_doors and returned
BuildMesh ==
    /\ pc = "mesh"
    /\ mesh' = [border_map |-> border_map, built |-> TRUE]
    /\ pc' = "done"
    /\ UNCHANGED <<bubbleVars, layoutVars, edit, edit_description, edits,
                   border_map, floorplans, exc>>
    /\ UNCHANGED batchVars

Next ==
    \/ BubbleDiagram \/ LlmFails
    \/ EnterFloorplan \/ LoadGenerator \/ LoadFails
    \/ InitialPass \/ RefineRound \/ InferFails
    \/ ValidateInvalid \/ ValidateValid \/ PostProcess
    \/ EditStop \/ EditRound \/ BuildMesh

Spec == Init /\ [][Next]_vars

\* ------------------------------------------------ bb/floorplan_graph_gen.py
\* an entry of floorplan_description["floorplans"] as the description file
\* has it before the driver ran
Item(k) == [id |-> k, has_graph |-> FALSE, graph_str |-> <<>>, graph_raw |-> <<>>]

\* the entry after floorplan['graph_str'] and floorplan['graph_raw'] were set
\* from the pair generate_floorplan_from_description returns (lines 163-165)
WithGraph(item, response_str) ==
    [item EXCEPT !.has_graph = TRUE,
                 !.graph_str = response_str,
                 !.graph_raw = StripSpaces(response_str)]

\* lines 8-11: the description file is read and the loop starts
InitBatch ==
    /\ response = NotJson
    /\ text = <<>>
    /\ edit = FALSE
    /\ Idle
    /\ \E n \in 0..MaxItems :
          /\ floorplan_description = [k \in 1..n |-> Item(k)]
          /\ document = floorplan_description
          /\ floorplan = 1
          /\ pc = IF n = 0 THEN "done" ELSE "batch"

\* lines 11-16: the language model answers for the item the loop is at
GenerateFromDescription ==
    /\ pc = "batch"
    /\ \E t \in LlmTexts :
          /\ text' = t
          /\ floorplan_description' =
                [floorplan_description EXCEPT
                    ![floorplan] = WithGraph(floorplan_description[floorplan], t)]
    /\ llm_calls' = llm_calls + 1
    /\ pc' = "write"
    /\ UNCHANGED <<prompt, response, bubble, layoutVars, houseVars, document, floorplan>>

\* lines 14, 153-161: the request to the language model raises; nothing in
\* the driver catches it
GenerateFromDescriptionFails ==
    /\ pc = "batch"
    /\ llm_calls' = llm_calls + 1
    /\ exc' = ApiFailure
    /\ pc' = "raised"
    /\ UNCHANGED <<text, prompt, response, bubble, layoutVars, edit, edit_description,
                   edits, border_map, floorplans, mesh, batchVars>>

\* lines 18-26: the whole document is written, and the loop moves on
WriteDocument ==
    /\ pc = "write"
    /\ document' = floorplan_description
    /\ floorplan' = floorplan + 1
    /\ pc' = IF floorplan' > Len(floorplan_description) THEN "done" ELSE "batch"
    /\ UNCHANGED <<bubbleVars, layoutVars, houseVars, floorplan_description>>

NextBatch == GenerateFromDescription \/ GenerateFromDescriptionFails \/ WriteDocument

SpecBatch == InitBatch /\ [][NextBatch]_vars

\* ------------------------------------------------- reading a compiled graph
\* the polarities the edge list gives the unordered pair {i, j}
Polarities(edges, i, j) ==
    {edges[k][2] : k \in {k \in 1..Len(edges) :
        \/ (edges[k][1] = i /\ edges[k][3] = j)
        \/ (edges[k][1] = j /\ edges[k][3] = i)}}

Positive(edges, i, j) == Polarities(edges, i, j) = {1}

Negative(edges, i, j) == Polarities(edges, i, j) = {-1}

HasAllKeys(resp) == DOMAIN resp = ResponseKeys

\* the counts R, C, F of a response and the node count n
NumRooms(resp) == Len(resp.modified_room_list)

NumConnections(resp) == Len(resp.connection)

NumFrontDoors(resp) == Len(resp.front_door)

NumNodes(resp) == NumRooms(resp) + NumConnections(resp) + NumFrontDoors(resp)

\* the node index of the room a complete name stands for (names unique)
NodeOf(resp, name) ==
    (CHOOSE k \in 1..Len(resp.complete_room_list) :
        resp.complete_room_list[k] = name) - 1

\* equal lengths, complete names unique, every reference names a room of
\* complete_room_list, every connection names two different rooms
WellFormed(resp) ==
    /\ HasAllKeys(resp)
    /\ Len(resp.complete_room_list) = Len(resp.modified_room_list)
    /\ \A k, l \in 1..Len(resp.complete_room_list) :
          resp.complete_room_list[k] = resp.complete_room_list[l] => k = l
    /\ \A k \in 1..Len(resp.connection) :
          /\ resp.connection[k][1] \in Range(resp.complete_room_list)
          /\ resp.connection[k][2] \in Range(resp.complete_room_list)
          /\ resp.connection[k][1] # resp.connection[k][2]
    /\ \A k \in 1..Len(resp.front_door) :
          resp.front_door[k] \in Range(resp.complete_room_list)

\* some connection or front-door entry names a room that is not in
\* complete_room_list
Dangling(resp) ==
    /\ HasAllKeys(resp)
    /\ \E k \in 1..Len(LookupOrder(resp.connection, resp.front_door)) :
          LookupOrder(resp.connection, resp.front_door)[k]
             \notin Range(resp.complete_room_list)

Compiled == pc = "compiled"

\* ---------------------------------------------------------------- claims
\* C1: whenever generate_bubble_diagram returns, its edge list holds exactly
\* one triple (i, polarity, j) for every pair 0 <= i < j < n, n = R + C + F,
\* and no other triple, so n*(n-1)/2 triples; every polarity is -1 or +1; and
\* the triples are in strictly ascending order of (i, j).
C1_CompleteSortedEdges ==
    (Compiled /\ bubble.returned) =>
        LET n == NumNodes(response)
            e == bubble.graph_edges
        IN /\ 2 * Len(e) = n * (n - 1)
           /\ \A k \in 1..Len(e) :
                 /\ 0 <= e[k][1] /\ e[k][1] < e[k][3] /\ e[k][3] < n
                 /\ e[k][2] \in {-1, 1}
           /\ \A i, j \in 0..(n - 1) :
                 i < j => Cardinality({k \in 1..Len(e) :
                                         e[k][1] = i /\ e[k][3] = j}) = 1
           /\ \A k \in 1..(Len(e) - 1) :
                 \/ e[k][1] < e[k + 1][1]
                 \/ (e[k][1] = e[k + 1][1] /\ e[k][3] < e[k + 1][3])

\* C1 witness: a returned graph of at least four nodes with a connection and
\* a front door, so that triples were removed and appended before the sort
C1_Witness ==
    /\ Compiled /\ bubble.returned
    /\ NumNodes(response) >= 4
    /\ NumConnections(response) >= 1 /\ NumFrontDoors(response) >= 1
    /\ \E k \in 1..Len(bubble.graph_edges) : bubble.graph_edges[k][2] = 1
    /\ \E k \in 1..Len(bubble.graph_edges) : bubble.graph_edges[k][2] = -1

\* C2: for a well-formed response, every declared connection between the
\* rooms at positions a and b has exactly one interior-door node d such that
\* the edges (a,d), (b,d) and (a,b) are all +1.
C2_ConnectionHasDoor ==
    (Compiled /\ WellFormed(response)) =>
        /\ bubble.returned
        /\ \A k \in 1..NumConnections(response) :
              LET a == NodeOf(response, response.connection[k][1])
                  b == NodeOf(response, response.connection[k][2])
                  R == NumRooms(response)
                  doors == R..(R + NumConnections(response) - 1)
                  e == bubble.graph_edges
              IN Cardinality({d \in doors : /\ Positive(e, a, d)
                                            /\ Positive(e, b, d)
                                            /\ Positive(e, a, b)}) = 1

\* the standardized names of a response are pairwise different
StdNamesDistinct(resp) ==
    \A k, l \in 1..Len(resp.modified_room_list) :
       resp.modified_room_list[k] = resp.modified_room_list[l] => k = l

\* C2, where the code does satisfy it: the same statement for responses whose
\* standardized names are pairwise different
C2_HoldsForDistinctStdNames ==
    (Compiled /\ WellFormed(response) /\ StdNamesDistinct(response)) =>
        /\ bubble.returned
        /\ \A k \in 1..NumConnections(response) :
              LET a == NodeOf(response, response.connection[k][1])
                  b == NodeOf(response, response.connection[k][2])
                  R == NumRooms(response)
                  doors == R..(R + NumConnections(response) - 1)
                  e == bubble.graph_edges
              IN Cardinality({d \in doors : /\ Positive(e, a, d)
                                            /\ Positive(e, b, d)
                                            /\ Positive(e, a, b)}) = 1

\* C3: for a well-formed response, the m-th front-door entry, naming room r,
\* has its own node f_m at index R + C + m - 1 whose edge to r is +1 and whose
\* edge to every other node is -1.
C3_FrontDoorNode ==
    (Compiled /\ WellFormed(response)) =>
        /\ bubble.returned
        /\ \A m \in 1..NumFrontDoors(response) :
              LET r == NodeOf(response, response.front_door[m])
                  f == NumRooms(response) + NumConnections(response) + m - 1
                  e == bubble.graph_edges
              IN /\ Positive(e, r, f)
                 /\ \A x \in 0..(NumNodes(response) - 1) :
                       (x # r /\ x # f) => Negative(e, x, f)

\* C3, where the code does satisfy it: standardized names pairwise different
C3_HoldsForDistinctStdNames ==
    (Compiled /\ WellFormed(response) /\ StdNamesDistinct(response)) =>
        /\ bubble.returned
        /\ \A m \in 1..NumFrontDoors(response) :
              LET r == NodeOf(response, response.front_door[m])
                  f == NumRooms(response) + NumConnections(response) + m - 1
                  e == bubble.graph_edges
              IN /\ Positive(e, r, f)
                 /\ \A x \in 0..(NumNodes(response) - 1) :
                       (x # r /\ x # f) => Negative(e, x, f)

\* C4: a response with a dangling reference ends compilation in an error of
\* its own kind, different from the kind of the other failures (here: the
\* failure of the same response with a required key missing), that carries a
\* name which is not in complete_room_list; and nothing is returned.
C4_DanglingIsDistinctError ==
    (Compiled /\ Dangling(response)) =>
        /\ ~bubble.returned
        /\ bubble.graph_edges = <<>> /\ bubble.graph_nodes = <<>>
        /\ bubble.exc.kind # "none"
        /\ bubble.exc.kind # Compile(DropKey(response, "complete_room_list")).exc.kind

\* C4, what the code does: the lookup raises KeyError, the kind a missing
\* key raises too, and nothing is returned
C4_DanglingRaisesKeyError ==
    (Compiled /\ Dangling(response)) =>
        /\ ~bubble.returned
        /\ bubble.graph_edges = <<>> /\ bubble.graph_nodes = <<>>
        /\ bubble.exc.kind = "KeyError"
        /\ bubble.exc.arg \in Range(LookupOrder(response.connection, response.front_door))
        /\ Compile(DropKey(response, "complete_room_list")).exc.kind = "KeyError"

\* the response with four empty lists
EmptyResponse ==
    [complete_room_list |-> <<>>, modified_room_list |-> <<>>,
     connection |-> <<>>, front_door |-> <<>>]

\* C5: compiling the response with an empty room list, no connections and no
\* front doors ends in an error, and no graph of zero nodes and zero edges is
\* returned.
C5_EmptyRoomListIsError ==
    (Compiled /\ response = EmptyResponse) =>
        /\ ~bubble.returned
        /\ bubble.exc.kind # "none"

\* C5, what the code does: it returns the graph of zero nodes and zero edges
C5_EmptyRoomListReturnsEmptyGraph ==
    (Compiled /\ response = EmptyResponse) =>
        /\ bubble.returned
        /\ bubble.graph_nodes = <<>> /\ bubble.graph_edges = <<>>

\* ------------------------------------------- reading the refinement rounds
\* the refinement rounds _infer was called for in the generate_layout_masks
\* that is running or has just returned: entry 1 of the log is the initial
\* pass, entry k + 2 is round k
RoundsLogged ==
    IF pc \in {"refine", "validate"}
    THEN {k \in 0..(NumRounds - 1) : k + 2 <= Len(infer_log)}
    ELSE {}

\* the set of fixed node indices handed to _infer in round k
FixedSet(k) == Range(infer_log[k + 2].fixed_nodes)

\* the number of distinct type codes of the compiled graph
NumTypes == Cardinality(Range(bubble.graph_nodes))

\* C6 (as claimed): over the ten refinement rounds the fixed set of round
\* k + 1 is a strict superset of that of round k, whatever the number of
\* distinct type codes, and a node fixed in some round is fixed in every later
\* round.
C6_FixedSetStrictlyGrows ==
    /\ \A k \in RoundsLogged :
          (k + 1) \in RoundsLogged =>
             /\ FixedSet(k) \subseteq FixedSet(k + 1)
             /\ FixedSet(k) # FixedSet(k + 1)
    /\ \A k, l \in RoundsLogged : k < l => FixedSet(k) \subseteq FixedSet(l)

\* C6 (amended): the fixed set of round k + 1 is a superset of that of round
\* k, a strict one exactly when the graph has more than k + 1 distinct type
\* codes; and a node fixed in some round is fixed in every later round.
C6_FixedSetGrowsWhileTypesLast ==
    /\ \A k \in RoundsLogged :
          (k + 1) \in RoundsLogged =>
             /\ FixedSet(k) \subseteq FixedSet(k + 1)
             /\ (FixedSet(k) # FixedSet(k + 1)) <=> (NumTypes > k + 1)
    /\ \A k, l \in RoundsLogged : k < l => FixedSet(k) \subseteq FixedSet(l)

\* C6 witness: all ten rounds of one call are done on a graph of four type
\* codes, so the set grew in the first rounds and stood still in the last
C6_Witness ==
    /\ pc = "validate"
    /\ RoundsLogged = 0..(NumRounds - 1)
    /\ NumTypes = 4
    /\ FixedSet(0) # FixedSet(1)
    /\ FixedSet(8) = FixedSet(9)
    /\ FixedSet(9) # {}

\* C7: in generate_floorplan every validation that finds the layout invalid
\* is followed by a whole new mask generation (an initial pass with no prior
\* masks and no fixed node, then all refinement rounds on the masks of that
\* same attempt) and a new validation; the border map is made only from the
\* final masks of an attempt that validated; and generate_floorplan returns
\* only after a validation that succeeded, which always makes it return.
C7_Inv ==
    /\ (pc = "validate") =>
          /\ Len(infer_log) = NumRounds + 1
          /\ infer_log[1] = [masks |-> NoMasks, fixed_nodes |-> <<>>]
          /\ \A r \in 2..(NumRounds + 1) :
                infer_log[r].masks =
                   [gen |-> llm_calls, attempt |-> attempt, pass |-> r - 2]
          /\ masks = [gen |-> llm_calls, attempt |-> attempt, pass |-> NumRounds]
    /\ (pc \in {"layout", "init", "refine", "validate"}) => ~status
    /\ (pc = "post") => status
    /\ (pc = "validate" /\ attempt < MaxAttempts) => ENABLED ValidateInvalid

C7_Step ==
    /\ (pc = "validate" /\ ~status') =>
          pc' = "layout" /\ border_map' = border_map /\ floorplans' = floorplans
    /\ (pc = "validate" /\ status') => pc' = "post"
    /\ (pc = "layout" /\ pc' # "raised") => pc' = "init" /\ infer_log' = <<>>
    /\ (border_map' # border_map \/ floorplans' # floorplans) =>
          /\ pc = "post" /\ status
          /\ border_map' = [masks |-> masks]
          /\ masks = [gen |-> llm_calls, attempt |-> attempt, pass |-> NumRounds]
          /\ floorplans' = floorplans + 1

C7_RetryWholeGenerationUntilValid == []C7_Inv /\ [][C7_Step]_vars

\* C7 witness: a border map made from the masks of a second attempt, after
\* the first attempt was found invalid
C7_Witness ==
    /\ pc \in {"mesh", "input"}
    /\ attempt = 2
    /\ border_map = [masks |-> [gen |-> llm_calls, attempt |-> 2, pass |-> NumRounds]]

\* C9: with edit=True the edit loop ends exactly when the instruction is ""
\* or "q"; for that instruction there is no language-model call, no
\* compilation and no mask generation, and the mesh returned is built from
\* the border map of the most recent completed round; every other instruction
\* starts one generate_bubble_diagram, and one complete generate_floorplan
\* follows it before the next instruction is read.
C9_Inv ==
    /\ (pc = "input") =>
          /\ edit
          /\ llm_calls = edits + 1 /\ floorplans = edits + 1
          /\ border_map = [masks |-> masks] /\ masks.gen = llm_calls
          /\ masks.pass = NumRounds /\ status
    /\ (pc = "done") =>
          /\ mesh = [border_map |-> border_map, built |-> TRUE]
          /\ border_map.masks.gen = llm_calls /\ floorplans = llm_calls
          /\ edit => edit_description \in {"", "q"}
          /\ ~edit => edits = 0 /\ llm_calls = 1

C9_Step ==
    /\ (pc = "input" /\ edit_description' \in {"", "q"}) =>
          /\ pc' = "mesh"
          /\ UNCHANGED <<bubbleVars, layoutVars, border_map, floorplans, edits>>
    /\ (pc = "input" /\ edit_description' \notin {"", "q"}) =>
          /\ pc' = "bubble" /\ edits' = edits + 1
          /\ prompt'.is_edit /\ prompt'.edit_description = edit_description'
          /\ UNCHANGED <<llm_calls, bubble, layoutVars, border_map, floorplans>>
    /\ (pc = "input" /\ pc' = "mesh") => edit_description' \in {"", "q"}
    /\ (pc = "mesh") =>
          pc' = "done" /\ UNCHANGED <<bubbleVars, layoutVars, border_map, floorplans>>
    /\ (pc = "bubble" /\ pc' # "raised") => pc' = "floorplan" /\ llm_calls' = llm_calls + 1

C9_EditLoopStopsOnSentinel == []C9_Inv /\ [][C9_Step]_vars

\* C9 witness: the mesh returned after one edit round and the instruction "q"
C9_Witness ==
    /\ pc = "done" /\ edit /\ edits = 1 /\ edit_description = "q"
    /\ mesh.built /\ mesh.border_map.masks.gen = 2

\* C10: when the generator fails (the model load raises, or an inference is
\* called and gives no masks back) the
\* exception leaves generate_layout_masks and generate_floorplan at once: no
\* further attempt, no further generator call, and no masks, border map or
\* mesh come from the failed attempt.
C10_Inv ==
    (exc = GenerationFailure) =>
        /\ pc = "raised"
        /\ mesh = NoMesh
        /\ border_map.masks.gen < llm_calls
        /\ floorplans = llm_calls - 1
        /\ ~status

C10_Step ==
    /\ pc # "raised"
    /\ (infer_log' # infer_log /\ infer_log' # <<>> /\ masks' = masks) =>
          pc' = "raised" /\ exc' = GenerationFailure
    /\ (exc' = GenerationFailure) =>
          /\ pc \in {"layout", "init", "refine"}
          /\ UNCHANGED <<masks, border_map, floorplans, mesh, iter, status>>

C10_GeneratorFailureIsFatal == []C10_Inv /\ [][C10_Step]_vars

\* C10 witness: an inference failed in a refinement round of a second attempt
C10_Witness ==
    /\ pc = "raised" /\ exc = GenerationFailure
    /\ attempt = 2 /\ iter >= 1 /\ Len(infer_log) = iter + 2

\* ------------------------------------------ reading a response text
\* the number of "{" less the number of "}" among positions p..k of raw
BraceDepth(raw, p, k) ==
    Cardinality({i \in p..k : raw[i] = "{"}) - Cardinality({i \in p..k : raw[i] = "}"})

\* positions p..q of raw are one balanced-brace group
BalancedGroup(raw, p, q) ==
    /\ p < q /\ raw[p] = "{" /\ raw[q] = "}"
    /\ BraceDepth(raw, p, q) = 0
    /\ \A k \in p..(q - 1) : BraceDepth(raw, p, k) > 0

\* the balanced-brace groups of raw that lie inside no other one
TopLevelGroups(raw) ==
    LET groups == {g \in (1..Len(raw)) \X (1..Len(raw)) : BalancedGroup(raw, g[1], g[2])}
    IN {g \in groups : ~\E h \in groups : h # g /\ h[1] <= g[1] /\ g[2] <= h[2]}

\* the top-level groups of raw that are JSON objects
TopLevelObjects(raw) ==
    {g \in TopLevelGroups(raw) : JsonLoads(SubSeq(raw, g[1], g[2])).valid}

Parsed == pc = "parsed"

ParseErrors == {"AttributeError", "JSONDecodeError"}

\* C8 (as claimed): a text with exactly one balanced-brace top-level JSON
\* object has exactly that object extracted; a text with no such object, or
\* with two of them, ends in a parse error and no graph is compiled.
C8_OneObjectOrParseError ==
    Parsed =>
       LET objs == TopLevelObjects(text)
       IN /\ Cardinality(objs) = 1 =>
                LET g == CHOOSE x \in objs : TRUE
                IN /\ bubble.exc.kind \notin ParseErrors
                   /\ response = JsonLoads(SubSeq(text, g[1], g[2])).value
          /\ Cardinality(objs) \in {0, 2} =>
                ~bubble.returned /\ bubble.exc.kind \in ParseErrors

\* C8 (amended): the parser takes the leftmost balanced-brace group of the
\* text from which every space and newline was deleted (those inside names
\* too). When that group is a JSON object it is the response that is
\* compiled, whatever follows it, a second object included; when the text has
\* no balanced group the search result is None and AttributeError is raised;
\* when the leftmost group is not JSON, JSONDecodeError is raised; in both
\* cases nothing is compiled.
C8_LeftmostGroupOfStrippedText ==
    Parsed =>
       LET raw == StripSpaces(text)
           tops == TopLevelGroups(raw)
       IN IF tops = {}
          THEN bubble = Raised(AttributeError) /\ response = NotJson
          ELSE LET g == CHOOSE x \in tops : \A y \in tops : x[1] <= y[1]
                   obj == JsonLoads(SubSeq(raw, g[1], g[2]))
               IN IF obj.valid
                  THEN response = obj.value /\ bubble = Compile(obj.value)
                  ELSE bubble = Raised(JSONDecodeError) /\ response = NotJson

\* C8 witness: a text with two top-level JSON objects was parsed, and the
\* graph of the first one was compiled and returned
C8_Witness ==
    /\ Parsed
    /\ Cardinality(TopLevelObjects(text)) = 2
    /\ response = PayloadA
    /\ bubble.returned /\ Len(bubble.graph_nodes) = 4

\* ------------------------------------------------ reading the batch driver
\* the driver's run is over
BatchOver == pc \in {"done", "raised"}

\* C11 (as claimed): the items are processed in list order with one write of
\* the document after each completed item; when generation fails for item k
\* the results written for the items before k stay in the document, item k is
\* skipped, and every item after k is still processed: the driver's run is
\* never over before the loop has reached the last item of the list.
C11_BatchSkipsFailedItem ==
    /\ \A j \in 1..Len(document) :
          (j < floorplan) => document[j].has_graph /\ document[j] = floorplan_description[j]
    /\ BatchOver => floorplan >= Len(floorplan_description)

\* what holds of the driver: the items before the loop's position are in the
\* document with their results, no later item is, and a failure of the
\* generation for the item the loop is at ends the run there
C11_BatchStopsAtFailedItem ==
    /\ Len(document) = Len(floorplan_description)
    /\ \A j \in 1..Len(document) :
          /\ (j < floorplan) => document[j].has_graph /\ document[j] = floorplan_description[j]
          /\ (j >= floorplan) => ~document[j].has_graph
    /\ (exc = ApiFailure) =>
          /\ pc = "raised"
          /\ floorplan \in 1..Len(floorplan_description)
          /\ ~floorplan_description[floorplan].has_graph

\* ------------------------------------------------ reading the type codes
\* the ten enumerated room types
RoomTypes == {"living_room", "kitchen", "bedroom", "bathroom", "balcony",
              "entrance", "dining_room", "study_room", "storage", "unknown"}

Digits == {"0", "1", "2", "3", "4", "5", "6", "7", "8", "9"}

\* the registry code of a standardized name: that of the type it starts with
\* when the rest of it is a numeric suffix of any length (none included), and
\* the code of unknown for every other name
RegistryCode(name) ==
    IF /\ name[1] \in RoomTypes
       /\ \A k \in 2..Len(name) : name[k] \in Digits
    THEN type_list[name[1]] ELSE type_list["unknown"]

\* the type code of the i-th node: the code whose one-hot row the node has
\* (the row's hot column, counted from 0 once column 0 is dropped, plus one)
TypeCode(i) == bubble.graph_nodes[i] + 1

\* C12 (as claimed): every interior-door node has code 17 and every
\* front-door node code 15, for every number of connections and front-door
\* entries (ten or more included); every real room has the registry code of
\* its type, the name being written bare or with a numeric suffix of any
\* length; only names whose type is not in the registry get code 16.
C12_TypeCodes ==
    (Compiled /\ bubble.returned) =>
       LET R == NumRooms(response)
           C == NumConnections(response)
       IN \A i \in 1..Len(bubble.graph_nodes) :
             TypeCode(i) =
                IF i <= R THEN RegistryCode(response.modified_room_list[i])
                ELSE IF i <= R + C THEN 17 ELSE 15

\* what holds of the type codes: a name gets the code of what is left of it
\* when its last character is cut off, so the code is the registry's for a
\* type followed by exactly one character (the doors 1 to 9 included), and
\* 16 for a bare type, a two-digit suffix and the doors from the tenth on
C12_TypeCodesOfOneCharSuffix ==
    (Compiled /\ bubble.returned) =>
       LET R == NumRooms(response)
           C == NumConnections(response)
           ofOneChar(name) == IF Len(name) = 2 /\ name[1] \in RoomTypes
                              THEN type_list[name[1]] ELSE 16
       IN \A i \in 1..Len(bubble.graph_nodes) :
             TypeCode(i) =
                IF i <= R THEN ofOneChar(response.modified_room_list[i])
                ELSE IF i <= R + C THEN (IF i - R <= 9 THEN 17 ELSE 16)
                ELSE (IF i - R - C <= 9 THEN 15 ELSE 16)

\* ------------------------------------------------ reading the +1 edges
\* the pairs of nodes a response declares adjacent: for the k-th connection
\* between the rooms a and b and its door d_k = R + k - 1, the pairs {a, d_k},
\* {b, d_k} and {a, b}; for the m-th front-door entry naming the room r and its
\* node f_m = R + C + m - 1, the pair {r, f_m}
DeclaredPairs(resp) ==
    LET R == NumRooms(resp)
        C == NumConnections(resp)
        ofConnection(k) ==
            LET a == NodeOf(resp, resp.connection[k][1])
                b == NodeOf(resp, resp.connection[k][2])
                d == R + k - 1
            IN {{a, d}, {b, d}, {a, b}}
    IN UNION {ofConnection(k) : k \in 1..C}
         \cup {{NodeOf(resp, resp.front_door[m]), R + C + m - 1} :
                 m \in 1..NumFrontDoors(resp)}

\* the edge list gives +1 to exactly the declared pairs and -1 to the others
ExactlyDeclared(resp, edges) ==
    \A i, j \in 0..(NumNodes(resp) - 1) :
       i < j => IF {i, j} \in DeclaredPairs(resp)
                THEN Positive(edges, i, j) ELSE Negative(edges, i, j)

\* no two connections of the response join the same pair of rooms
NoRepeatedConnection(resp) ==
    \A k, l \in 1..Len(resp.connection) :
       {resp.connection[k][1], resp.connection[k][2]}
          = {resp.connection[l][1], resp.connection[l][2]} => k = l

\* C13 (as claimed): for every well-formed response (each connection names
\* two different rooms; the same pair may be declared more than once) the +1
\* edges are exactly: for the k-th connection between a and b with its own
\* door d_k, the pairs (a,d_k), (b,d_k) and (a,b); for the m-th front-door
\* entry naming r, the pair (r,f_m). Every other pair is -1.
C13_ExactPositiveEdges ==
    (Compiled /\ WellFormed(response)) =>
        /\ bubble.returned
        /\ ExactlyDeclared(response, bubble.graph_edges)

\* where the code does give exactly the declared +1 edges: standardized names
\* pairwise different and no pair of rooms connected twice
C13_ExactWithoutRepetition ==
    (Compiled /\ WellFormed(response) /\ StdNamesDistinct(response)
        /\ NoRepeatedConnection(response)) =>
        /\ bubble.returned
        /\ ExactlyDeclared(response, bubble.graph_edges)

\* with pairwise different standardized names a pair of rooms connected
\* twice still compiles, but of its doors only the first declared one gets
\* +1 edges
C13_OnlyFirstDoorOfARepeatedPair ==
    (Compiled /\ WellFormed(response) /\ StdNamesDistinct(response)) =>
        /\ bubble.returned
        /\ \A k \in 1..NumConnections(response) :
              LET d == NumRooms(response) + k - 1
                  first == \A l \in 1..(k - 1) :
                              {response.connection[l][1], response.connection[l][2]}
                                 # {response.connection[k][1], response.connection[k][2]}
              IN ~first => \A x \in 0..(NumNodes(response) - 1) :
                              x # d => Negative(bubble.graph_edges, x, d)

\* ------------------------------------------------ reading the last round
\* every real room of the response has one of the ten enumerated types
OnlyEnumeratedTypes(resp) ==
    \A k \in 1..Len(resp.modified_room_list) :
       /\ resp.modified_room_list[k][1] \in RoomTypes
       /\ \A c \in 2..Len(resp.modified_room_list[k]) :
             resp.modified_room_list[k][c] \in Digits

\* all ten refinement rounds of the running generate_layout_masks are done
AllRoundsDone == pc = "validate" /\ RoundsLogged = 0..(NumRounds - 1)

\* C14 (as claimed): for a compiled graph whose real rooms use only the ten
\* enumerated types, the fixed set of the tenth refinement round holds the
\* index of every real-room node, whatever door nodes the graph also has.
C14_LastRoundFixesEveryRoom ==
    (AllRoundsDone /\ OnlyEnumeratedTypes(response)) =>
        \A i \in 0..(NumRooms(response) - 1) : i \in FixedSet(NumRounds - 1)

\* what holds of the last round: the distinct-type list is made from all the
\* nodes, doors included, so the tenth round fixes every node (and so every
\* real room) when the graph has at most ten distinct type codes, and leaves
\* out the nodes of the eleventh and later codes when it has more
C14_LastRoundFixesFirstTenCodes ==
    AllRoundsDone =>
        LET codes == Range(bubble.graph_nodes)
            firstTen == {c \in codes : Cardinality({b \in codes : b < c}) < NumRounds}
        IN FixedSet(NumRounds - 1) =
              {i \in 0..(Len(bubble.graph_nodes) - 1) : bubble.graph_nodes[i + 1] \in firstTen}

\* ------------------------------------------------ reading the edit request
\* an edit round has been started and its request to the language model is
\* about to be made: response and bubble are still those of the round before
EditRequested == pc = "bubble" /\ prompt.is_edit

\* the names the compiler synthesizes for doors
IsDoorName(name) == name[1] \in {"interior_door", "front_door"}

\* C15 (as claimed): the prior state given to the language model for an edit
\* round is the single most recent response with the content of its four
\* lists as parsed, unchanged by compilation: its modified_room_list is as
\* long as its complete_room_list and holds no synthesized door name.
C15_PriorStateIsResponseUnchanged ==
    EditRequested =>
        /\ prompt.edit_fp = response
        /\ Len(prompt.edit_fp.modified_room_list) = Len(prompt.edit_fp.complete_room_list)
        /\ \A k \in 1..Len(prompt.edit_fp.modified_room_list) :
              ~IsDoorName(prompt.edit_fp.modified_room_list[k])

\* what holds of the prior state: it is the most recent response alone, with
\* complete_room_list, connection and front_door as parsed, and with a
\* modified_room_list to which the compiler has appended one interior-door
\* name per connection and one front-door name per front-door entry
C15_PriorStateHasDoorNamesAppended ==
    EditRequested =>
        /\ prompt.edit_fp.complete_room_list = response.complete_room_list
        /\ prompt.edit_fp.connection = response.connection
        /\ prompt.edit_fp.front_door = response.front_door
        /\ prompt.edit_fp.modified_room_list =
              response.modified_room_list
                 \o [k \in 1..NumConnections(response) |-> <<"interior_door">> \o Str(k)]
                 \o [m \in 1..NumFrontDoors(response) |-> <<"front_door">> \o Str(m)]
        /\ prompt.edit_fp.modified_room_list = bubble.room_list
====
